---- MODULE Spec2Model ----
(***************************************************************************)
(* fcntl-tool: advisory file locks through fcntl(2).                       *)
(*                                                                         *)
(* The model has two layers.  The lower layer is the lock table the kernel *)
(* keeps for one file and the fcntl commands F_SETLK, F_OFD_SETLK, F_GETLK *)
(* and F_OFD_GETLK acting on it.  The upper layer is src/fcntl.rs:         *)
(* get_flock_len, get_flock, the two to_fcntl_arg selections,              *)
(* try_acquire_lock and get_lock_state.                                    *)
(*                                                                         *)
(* A locking domain is one owner of locks in the kernel table: a process   *)
(* for traditional locks, an open file description for OFD locks.  Each    *)
(* domain is one invocation of the tool holding one open handle of the     *)
(* file (main.rs); all invocations use the strategy picked at the start.   *)
(***************************************************************************)
EXTENDS Integers, FiniteSets, Sequences, TLC

\* Largest file length of the model, in bytes.
MaxLen == 2

\* The locking domains (independent openers of the same file).
Domain == {"d1", "d2", "d3"}

LockType == {"Write", "Read"}
LockScope == {"WholeFile", "WholeByteRange"}

\* libc values (Linux).
F_RDLCK == 0
F_WRLCK == 1
F_UNLCK == 2
SEEK_SET == 0

\* The largest off_t, scaled to the model: a file of length MaxLen does not
\* fit the descriptor's l_len field.
OFF_T_MAX == MaxLen - 1

Errno == {"EAGAIN", "EACCES", "EBADF", "EINVAL", "ENOLCK", "EINTR"}

\* Byte offsets of the file.  Offset MaxLen stands for every offset >= MaxLen:
\* all ranges of the model end at an offset <= MaxLen or reach to infinity.
Bytes == 0..MaxLen

NoExtent == -1
Infinite == MaxLen + 1

NoFlock == [l_type |-> -1, l_whence |-> -1, l_start |-> -1, l_len |-> -1, l_pid |-> -1]
NoRes == [kind |-> "-", info |-> "-"]
NoOut == [ok |-> FALSE, ret |-> 0, errno |-> "-", l_type |-> -1]
Idle == [op |-> "-", dom |-> "-", lock_type |-> "-", scope |-> "-", res |-> NoRes,
         flock |-> NoFlock, calls |-> << >>, out |-> NoOut, reads |-> 0]

VARIABLES
    fileLen,       \* current length of the file
    metaReadable,  \* whether File::metadata() succeeds
    operation,     \* the LockOperation (strategy) the invocations use
    locks,         \* kernel lock table: locks[d][b] in {F_RDLCK, F_WRLCK, F_UNLCK}
    extent,        \* extent[d]: end of the byte range the domain asked to protect
    last,          \* the last operation: its inputs, descriptor, syscalls, result
    sys            \* "posix": fcntl is the kernel below; "any": fcntl is a stub
                   \* that may return any result

vars == <<fileLen, metaReadable, operation, locks, extent, last, sys>>

Max(a, b) == IF a >= b THEN a ELSE b

(***************************************************************************)
(* The kernel: POSIX record locks on one file (fcntl(2)).                  *)
(***************************************************************************)

\* The offsets a descriptor covers; l_len = 0 means "to the end of the file,
\* no matter how large the file grows".
KRange(fl) ==
    IF fl.l_len = 0
    THEN {b \in Bytes : b >= fl.l_start}
    ELSE {b \in Bytes : b >= fl.l_start /\ b < fl.l_start + fl.l_len}

\* A held lock blocks a request of another owner unless both are read locks.
Blocks(held, req) == held # F_UNLCK /\ (held = F_WRLCK \/ req = F_WRLCK)

Blockers(d, fl) ==
    {o \in Domain \ {d} : \E b \in KRange(fl) : Blocks(locks[o][b], fl.l_type)}

SysErr(e, fl) == [ok |-> FALSE, ret |-> -1, errno |-> e, flock |-> fl, locks |-> locks]
SysOk(fl, lk) == [ok |-> TRUE, ret |-> 0, errno |-> "-", flock |-> fl, locks |-> lk]

\* The table once d's request is granted: the new type replaces whatever d
\* held on the range.  Only the owners in Domain keep what they get.
Granted(d, fl) ==
    IF d \in Domain
    THEN [locks EXCEPT ![d] = [b \in Bytes |-> IF b \in KRange(fl) THEN fl.l_type ELSE @[b]]]
    ELSE locks

\* Any result a call of fcntl can have at all: -1 with any errno, or a return
\* value >= 0; a get command leaves any c_short in l_type.  The table is left
\* alone.
AnyLockType == -1..(F_UNLCK + 1)
AnyResult(cmd, fl) ==
    {SysErr(e, fl) : e \in Errno}
    \cup {[ok |-> TRUE, ret |-> r, errno |-> "-", flock |-> [fl EXCEPT !.l_type = t],
           locks |-> locks] :
             r \in {0, 1},
             t \in IF cmd \in {"F_GETLK", "F_OFD_GETLK"} THEN AnyLockType ELSE {fl.l_type}}

\* The outcomes of fcntl(fd of d, cmd, &fl) in the kernel.
posix_fcntl(d, cmd, fl) ==
    IF cmd \in {"F_OFD_SETLK", "F_OFD_GETLK"} /\ fl.l_pid # 0
    THEN {SysErr("EINVAL", fl)}
    ELSE IF cmd \in {"F_SETLK", "F_OFD_SETLK"}
    THEN IF fl.l_type \notin {F_RDLCK, F_WRLCK, F_UNLCK}
         THEN {SysErr("EINVAL", fl)}
         ELSE IF fl.l_type # F_UNLCK /\ Blockers(d, fl) # {}
         THEN {SysErr("EAGAIN", fl), SysErr("EACCES", fl)}
         ELSE {SysOk(fl, Granted(d, fl))}
    ELSE IF cmd \in {"F_GETLK", "F_OFD_GETLK"}
    THEN IF fl.l_type \notin {F_RDLCK, F_WRLCK}
         THEN {SysErr("EINVAL", fl)}
         ELSE IF Blockers(d, fl) = {}
         THEN {SysOk([fl EXCEPT !.l_type = F_UNLCK], locks)}
         ELSE {SysOk([fl EXCEPT !.l_type = locks[o][b]], locks) :
                  <<o, b>> \in {p \in Blockers(d, fl) \X KRange(fl) :
                                   Blocks(locks[p[1]][p[2]], fl.l_type)}}
    ELSE {SysErr("EINVAL", fl)}

\* nix::fcntl::fcntl
fcntl(d, cmd, fl) == IF sys = "posix" THEN posix_fcntl(d, cmd, fl) ELSE AnyResult(cmd, fl)

(***************************************************************************)
(* src/fcntl.rs                                                            *)
(***************************************************************************)

\* Mutant: a write lock is requested as a read lock.
LockType_to_libc_val_shared(t) == F_RDLCK

\* Mutant: a read lock is requested as "unlock".
LockType_to_libc_val_unlock(t) == IF t = "Write" THEN F_WRLCK ELSE F_UNLCK

LockType_to_libc_val(t) == IF t = "Write" THEN F_WRLCK ELSE F_RDLCK

\* Mutant: an unknown value is taken for "no lock".
LockState_try_from_coerce(value) ==
    CASE value = F_WRLCK -> [kind |-> "Ok", info |-> "ExclusiveWrite"]
      [] value = F_RDLCK -> [kind |-> "Ok", info |-> "SharedRead"]
      [] OTHER -> [kind |-> "Ok", info |-> "Unlocked"]

LockState_try_from(value) ==
    CASE value = F_UNLCK -> [kind |-> "Ok", info |-> "Unlocked"]
      [] value = F_WRLCK -> [kind |-> "Ok", info |-> "ExclusiveWrite"]
      [] value = F_RDLCK -> [kind |-> "Ok", info |-> "SharedRead"]
      [] OTHER -> [kind |-> "InvalidLockType", info |-> ToString(value)]

\* File::metadata().map(|m| m.len())
file_metadata ==
    IF metaReadable THEN [ok |-> TRUE, len |-> fileLen] ELSE [ok |-> FALSE, len |-> 0]

\* Mutant: the length is read from the metadata for every scope.
get_flock_len_always_stat(scope, md) ==
    IF ~md.ok
    THEN [ok |-> FALSE, len |-> 0, err |-> "MetadataError", reads |-> 1]
    ELSE IF md.len > OFF_T_MAX
    THEN [ok |-> FALSE, len |-> 0, err |-> "TryFromIntError", reads |-> 1]
    ELSE [ok |-> TRUE, len |-> md.len, err |-> "-", reads |-> 1]

\* Mutant: a length that cannot be determined is taken to be 0
\* (unwrap_or_default instead of `?`).
get_flock_len_or_default(scope, md) ==
    IF scope = "WholeFile"
    THEN [ok |-> TRUE, len |-> 0, err |-> "-", reads |-> 0]
    ELSE IF ~md.ok \/ md.len > OFF_T_MAX
    THEN [ok |-> TRUE, len |-> 0, err |-> "-", reads |-> 1]
    ELSE [ok |-> TRUE, len |-> md.len, err |-> "-", reads |-> 1]

\* reads: how often the file's metadata was queried.
get_flock_len(scope, md) ==
    IF scope = "WholeFile"
    THEN [ok |-> TRUE, len |-> 0, err |-> "-", reads |-> 0]
    ELSE IF ~md.ok
    THEN [ok |-> FALSE, len |-> 0, err |-> "MetadataError", reads |-> 1]
    ELSE IF md.len > OFF_T_MAX
    THEN [ok |-> FALSE, len |-> 0, err |-> "TryFromIntError", reads |-> 1]
    ELSE [ok |-> TRUE, len |-> md.len, err |-> "-", reads |-> 1]

get_flock(lock_type, len) ==
    [l_type |-> LockType_to_libc_val(lock_type), l_whence |-> SEEK_SET,
     l_start |-> 0, l_len |-> len, l_pid |-> 0]

LockOperation_try_from(dont_use_ofd) ==
    IF dont_use_ofd THEN "Traditional" ELSE "OpenFileDescription"

\* Mutant: the waiting variants of the set-lock commands.
SetLockOperation_to_fcntl_arg_wait(self) ==
    IF self = "Traditional" THEN "F_SETLKW" ELSE "F_OFD_SETLKW"

SetLockOperation_to_fcntl_arg(self) ==
    IF self = "Traditional" THEN "F_SETLK" ELSE "F_OFD_SETLK"

\* Mutant: the query issues the set-lock commands.
GetLockOperation_to_fcntl_arg_set(self) ==
    IF self = "Traditional" THEN "F_SETLK" ELSE "F_OFD_SETLK"

GetLockOperation_to_fcntl_arg(self) ==
    IF self = "Traditional" THEN "F_GETLK" ELSE "F_OFD_GETLK"

\* Mutant: EACCES is not taken for a held lock.
try_acquire_lock_result_eagain_only(out) ==
    IF out.ok THEN [kind |-> "Ok", info |-> "-"]
    ELSE IF out.errno = "EAGAIN"
    THEN [kind |-> "AlreadyLocked", info |-> "-"]
    ELSE [kind |-> "Unexpected", info |-> out.errno]

\* The match on the result of fcntl in try_acquire_lock.
try_acquire_lock_result(out) ==
    IF out.ok THEN [kind |-> "Ok", info |-> "-"]
    ELSE IF out.errno \in {"EAGAIN", "EACCES"}
    THEN [kind |-> "AlreadyLocked", info |-> "-"]
    ELSE [kind |-> "Unexpected", info |-> out.errno]

\* Mutant: the query probes with a read lock.
get_lock_state_probe_read == "Read"

\* The lock type get_lock_state probes with.
get_lock_state_probe == "Write"

\* What get_lock_state makes of the result of fcntl.
get_lock_state_result(out) ==
    IF ~out.ok THEN [kind |-> "Errno", info |-> out.errno]
    ELSE IF out.ret # 0 THEN [kind |-> "LastOsError", info |-> "-"]
    ELSE LockState_try_from(out.flock.l_type)

\* What a call of fcntl handed back: the Result and the descriptor's l_type.
Returned(out) ==
    [ok |-> out.ok, ret |-> out.ret, errno |-> out.errno, l_type |-> out.flock.l_type]

\* The end of the byte range a scope is documented to protect.
ScopeEnd(scope, len) == IF scope = "WholeFile" THEN Infinite ELSE len

try_acquire_lock(d, lock_type, scope) ==
    /\ LET flock_len == get_flock_len(scope, file_metadata)
           rec == [op |-> "try_acquire_lock", dom |-> d, lock_type |-> lock_type,
                   scope |-> scope, res |-> NoRes, flock |-> NoFlock,
                   calls |-> << >>, out |-> NoOut, reads |-> flock_len.reads]
       IN IF ~flock_len.ok
          THEN /\ last' = [rec EXCEPT !.res = [kind |-> flock_len.err, info |-> "-"]]
               /\ UNCHANGED <<locks, extent>>
          ELSE LET flock == get_flock(lock_type, flock_len.len)
                   arg == SetLockOperation_to_fcntl_arg(operation)
               IN \E out \in fcntl(d, arg, flock) :
                     /\ locks' = out.locks
                     /\ extent' = IF out.ok
                                  THEN [extent EXCEPT ![d] = Max(@, ScopeEnd(scope, flock_len.len))]
                                  ELSE extent
                     /\ last' = [rec EXCEPT !.res = try_acquire_lock_result(out),
                                            !.flock = flock, !.calls = <<arg>>,
                                            !.out = Returned(out)]
    /\ UNCHANGED <<fileLen, metaReadable, operation, sys>>

get_lock_state(d, scope) ==
    /\ LET flock_len == get_flock_len(scope, file_metadata)
           rec == [op |-> "get_lock_state", dom |-> d, lock_type |-> "-",
                   scope |-> scope, res |-> NoRes, flock |-> NoFlock,
                   calls |-> << >>, out |-> NoOut, reads |-> flock_len.reads]
       IN IF ~flock_len.ok
          THEN /\ last' = [rec EXCEPT !.res = [kind |-> flock_len.err, info |-> "-"]]
               /\ UNCHANGED locks
          ELSE LET flock == get_flock(get_lock_state_probe, flock_len.len)
                   arg == GetLockOperation_to_fcntl_arg(operation)
               IN \E out \in fcntl(d, arg, flock) :
                     /\ locks' = out.locks
                     /\ last' = [rec EXCEPT !.res = get_lock_state_result(out),
                                            !.flock = flock, !.calls = <<arg>>,
                                            !.out = Returned(out)]
    /\ UNCHANGED <<fileLen, metaReadable, operation, extent, sys>>

(***************************************************************************)
(* src/main.rs and the environment                                         *)
(***************************************************************************)

\* The invocation ends: its File is dropped and the kernel releases the
\* domain's locks.  The next invocation opens the file again (open_file).
release(d) ==
    /\ locks[d] # [b \in Bytes |-> F_UNLCK]
    /\ locks' = [locks EXCEPT ![d] = [b \in Bytes |-> F_UNLCK]]
    /\ extent' = [extent EXCEPT ![d] = NoExtent]
    /\ last' = Idle
    /\ UNCHANGED <<fileLen, metaReadable, operation, sys>>

\* Somebody appends to the file or truncates it.
Resize(n) ==
    /\ n # fileLen
    /\ fileLen' = n
    /\ last' = Idle
    /\ UNCHANGED <<metaReadable, operation, locks, extent, sys>>

\* The file's metadata becomes unreadable, or readable again.
SetMetaReadable(r) ==
    /\ r # metaReadable
    /\ metaReadable' = r
    /\ last' = Idle
    /\ UNCHANGED <<fileLen, operation, locks, extent, sys>>

\* A locker outside Domain asks for the bytes [start, fileLen) with its own
\* set-lock request (try_acquire_lock cannot: its l_start is always 0),
\* reports the outcome and exits, which releases what it got.
Outsider == "outsider"

RangeRequest(lock_type, start) ==
    /\ start < fileLen
    /\ LET flock == [get_flock(lock_type, fileLen - start) EXCEPT !.l_start = start]
           arg == SetLockOperation_to_fcntl_arg(operation)
       IN \E out \in fcntl(Outsider, arg, flock) :
             last' = [op |-> "range_request", dom |-> Outsider, lock_type |-> lock_type,
                      scope |-> "-", res |-> try_acquire_lock_result(out),
                      flock |-> flock, calls |-> <<arg>>, out |-> Returned(out),
                      reads |-> 0]
    /\ UNCHANGED <<fileLen, metaReadable, operation, locks, extent, sys>>

Start ==
    /\ fileLen \in 0..MaxLen
    /\ metaReadable = TRUE
    /\ operation \in {LockOperation_try_from(b) : b \in BOOLEAN}
    /\ locks = [d \in Domain |-> [b \in Bytes |-> F_UNLCK]]
    /\ extent = [d \in Domain |-> NoExtent]
    /\ last = Idle

Init == Start /\ sys = "posix"

Next ==
    \/ \E d \in Domain, t \in LockType, s \in LockScope : try_acquire_lock(d, t, s)
    \/ \E d \in Domain, s \in LockScope : get_lock_state(d, s)
    \/ \E d \in Domain : release(d)
    \/ \E n \in 0..MaxLen : Resize(n)
    \/ \E r \in BOOLEAN : SetMetaReadable(r)
    \/ \E t \in LockType, s \in 0..MaxLen : RangeRequest(t, s)

Spec == Init /\ [][Next]_vars

\* The two operations over a stub of fcntl that may return any result: what
\* they make of every result of the call.  One caller is enough: with the
\* stub, nothing an operation does depends on the other domains.
InitAnyResult == Start /\ sys = "any"

NextAnyResult ==
    \/ \E t \in LockType, s \in LockScope : try_acquire_lock("d1", t, s)
    \/ \E s \in LockScope : get_lock_state("d1", s)
    \/ \E n \in 0..MaxLen : Resize(n)
    \/ \E r \in BOOLEAN : SetMetaReadable(r)

SpecAnyResult == InitAnyResult /\ [][NextAnyResult]_vars

(***************************************************************************)
(* Properties                                                              *)
(***************************************************************************)

Called(op) == last.op = op /\ Len(last.calls) = 1

\* C1: try_acquire_lock maps the result of its one set-lock call: success
\* gives Ok(()); EAGAIN and EACCES give the AlreadyLocked error; every other
\* errno gives an "unexpected" error that carries the errno and is neither
\* AlreadyLocked nor success.  This holds for every lock type, strategy and
\* scope.
C1_ResultMapping ==
    Called("try_acquire_lock") =>
        /\ last.out.ok => last.res = [kind |-> "Ok", info |-> "-"]
        /\ ~last.out.ok /\ last.out.errno \in {"EAGAIN", "EACCES"}
              => last.res = [kind |-> "AlreadyLocked", info |-> "-"]
        /\ ~last.out.ok /\ last.out.errno \notin {"EAGAIN", "EACCES"}
              => last.res = [kind |-> "Unexpected", info |-> last.out.errno]

C1_Witness ==
    /\ Called("try_acquire_lock")
    /\ last.out.errno = "EACCES"
    /\ last.res.kind = "AlreadyLocked"
    /\ last.scope = "WholeByteRange"
    /\ last.lock_type = "Read"
    /\ operation = "Traditional"

\* C10: get_lock_state decodes the l_type the call left in the descriptor:
\* F_UNLCK is Unlocked, F_WRLCK is ExclusiveWrite, F_RDLCK is SharedRead; any
\* other value is an error of its own kind, never one of the three states; a
\* failed call or a non-zero return value is an error, never a state.
C10_Decode ==
    Called("get_lock_state") =>
        IF ~last.out.ok
        THEN last.res = [kind |-> "Errno", info |-> last.out.errno]
        ELSE IF last.out.ret # 0
        THEN last.res = [kind |-> "LastOsError", info |-> "-"]
        ELSE /\ last.out.l_type = F_UNLCK => last.res = [kind |-> "Ok", info |-> "Unlocked"]
             /\ last.out.l_type = F_WRLCK => last.res = [kind |-> "Ok", info |-> "ExclusiveWrite"]
             /\ last.out.l_type = F_RDLCK => last.res = [kind |-> "Ok", info |-> "SharedRead"]
             /\ last.out.l_type \notin {F_UNLCK, F_WRLCK, F_RDLCK}
                   => /\ last.res.kind = "InvalidLockType"
                      /\ last.res.kind \notin {"Ok", "Errno", "LastOsError"}
                      /\ last.res.info = ToString(last.out.l_type)

C10_Witness ==
    /\ Called("get_lock_state")
    /\ last.out.ok /\ last.out.ret = 0
    /\ last.out.l_type = F_UNLCK + 1
    /\ last.res.kind = "InvalidLockType"

(***************************************************************************)
(* Properties of the operations over the kernel's lock table (Spec)        *)
(***************************************************************************)

Ok == [kind |-> "Ok", info |-> "-"]
AlreadyLocked == [kind |-> "AlreadyLocked", info |-> "-"]
Observed(state) == [kind |-> "Ok", info |-> state]

\* The kernel value of the lock a successful request of type t holds.
Want(t) == IF t = "Write" THEN F_WRLCK ELSE F_RDLCK

\* d holds a lock of kernel type v on every byte of r.
HeldAll(d, r, v) == \A b \in r : locks[d][b] = v

\* The kernel types of the locks the domains other than d hold on bytes of r.
OthersTypes(d, r) == {locks[o][b] : o \in Domain \ {d}, b \in r} \ {F_UNLCK}

\* The step is a call of op that issued its syscall.
Did(op) == last'.op = op /\ Len(last'.calls) = 1

\* No two domains hold locks on one byte unless both are read locks.
Exclusion ==
    \A d1 \in Domain, d2 \in Domain, b \in Bytes :
        d1 # d2 /\ locks[d1][b] # F_UNLCK /\ locks[d2][b] # F_UNLCK
            => locks[d1][b] = F_RDLCK /\ locks[d2][b] = F_RDLCK

\* C2: over the region of its descriptor, try_acquire of Write succeeds when
\* no other domain holds a lock on the region and returns AlreadyLocked when
\* another domain holds a Read or a Write lock on it; try_acquire of Read
\* succeeds when no other domain holds a Write lock on it (and returns
\* AlreadyLocked otherwise); a successful request holds the region with the
\* requested type.  In every state no two domains hold locks on the same
\* byte unless both are Read locks.
C2_Conflicts ==
    [][ /\ Did("try_acquire_lock") =>
            LET d == last'.dom
                r == KRange(last'.flock)
            IN /\ last'.lock_type = "Write" =>
                     last'.res = IF OthersTypes(d, r) = {} THEN Ok ELSE AlreadyLocked
               /\ last'.lock_type = "Read" =>
                     last'.res = IF F_WRLCK \notin OthersTypes(d, r) THEN Ok ELSE AlreadyLocked
               /\ last'.res = Ok => \A b \in r : locks'[d][b] = Want(last'.lock_type)
        /\ Exclusion' ]_vars

C2_Witness ==
    /\ Called("try_acquire_lock")
    /\ last.dom = "d3" /\ last.lock_type = "Write" /\ last.scope = "WholeFile"
    /\ last.res = AlreadyLocked
    /\ HeldAll("d1", Bytes, F_RDLCK)
    /\ HeldAll("d2", Bytes, F_RDLCK)

\* C3 as stated: while a domain holds a Write lock on the region, a query
\* from that same domain reports ExclusiveWrite; while nobody holds a lock on
\* the region (before any acquisition, after release) a query reports Unlocked.
C3_SameDomainSeesOwnLock ==
    Called("get_lock_state") =>
        LET d == last.dom
            r == KRange(last.flock)
        IN /\ HeldAll(d, r, F_WRLCK) => last.res = Observed("ExclusiveWrite")
           /\ (\A o \in Domain : HeldAll(o, r, F_UNLCK)) => last.res = Observed("Unlocked")

\* C3 amended: while a domain holds a Write lock on the region, a query from
\* that same domain reports Unlocked (the probe never conflicts with the
\* domain's own lock) and a query from another domain reports ExclusiveWrite;
\* while nobody holds a lock on the region a query reports Unlocked.
C3_OwnLockIsNotReported ==
    Called("get_lock_state") =>
        LET d == last.dom
            r == KRange(last.flock)
        IN /\ HeldAll(d, r, F_WRLCK) => last.res = Observed("Unlocked")
           /\ (\E o \in Domain \ {d} : HeldAll(o, r, F_WRLCK))
                 => last.res = Observed("ExclusiveWrite")
           /\ (\A o \in Domain : HeldAll(o, r, F_UNLCK)) => last.res = Observed("Unlocked")

C3_Witness ==
    /\ Called("get_lock_state")
    /\ HeldAll(last.dom, KRange(last.flock), F_WRLCK)
    /\ last.res = Observed("Unlocked")

\* C4: a query from domain d over the region of its descriptor reports
\* Unlocked exactly when no other domain holds a lock overlapping the region,
\* and otherwise the type of a lock another domain does hold on it.
C4_QueryReportsOthers ==
    Called("get_lock_state") =>
        LET held == OthersTypes(last.dom, KRange(last.flock))
        IN /\ last.res.kind = "Ok"
           /\ last.res.info = "Unlocked" <=> held = {}
           /\ last.res.info = "ExclusiveWrite" => F_WRLCK \in held
           /\ last.res.info = "SharedRead" => F_RDLCK \in held

C4_Witness ==
    /\ Called("get_lock_state")
    /\ operation = "OpenFileDescription"
    /\ last.dom = "d2" /\ last.scope = "WholeFile"
    /\ HeldAll("d1", Bytes, F_WRLCK)
    /\ last.res = Observed("ExclusiveWrite")

\* C5: a request of an outside locker for the bytes [start, fileLen) succeeds
\* when every domain's locks were asked for bytes below start only
\* (WholeByteRange at a length <= start), whatever that length was; it
\* returns AlreadyLocked when a domain holds a conflicting lock it took with
\* WholeFile.
C5_AppendedBytesUnprotected ==
    last.op = "range_request" =>
        LET start == last.flock.l_start
        IN /\ (\A o \in Domain : extent[o] <= start) => last.res = Ok
           /\ (\E o \in Domain :
                  /\ extent[o] = Infinite
                  /\ \E b \in KRange(last.flock) : Blocks(locks[o][b], last.flock.l_type))
                 => last.res = AlreadyLocked

\* C6: the descriptor of an operation starts at offset 0 of the file
\* (SEEK_SET); with WholeFile its length is 0 and the metadata is not read,
\* so it is built also when the metadata is unreadable; with WholeByteRange
\* the metadata is read once and the length is the file's current length.
C6_Range ==
    last.op \in {"try_acquire_lock", "get_lock_state"} =>
        /\ last.flock # NoFlock => last.flock.l_start = 0 /\ last.flock.l_whence = SEEK_SET
        /\ last.scope = "WholeFile" =>
              last.reads = 0 /\ last.flock # NoFlock /\ last.flock.l_len = 0
        /\ last.scope = "WholeByteRange" =>
              /\ last.reads = 1
              /\ last.flock # NoFlock => last.flock.l_len = fileLen
              /\ metaReadable /\ fileLen <= OFF_T_MAX => last.flock # NoFlock

C6_Witness ==
    /\ last.op = "try_acquire_lock" /\ last.scope = "WholeFile"
    /\ ~metaReadable
    /\ fileLen > 0
    /\ last.res = Ok /\ last.flock.l_len = 0 /\ last.reads = 0

\* C7: with WholeByteRange, when the file's size cannot be determined (the
\* metadata is unreadable or the size does not fit l_len) both operations
\* return an error without calling fcntl and the lock table stays as it was;
\* the table changes only in a step that built a descriptor.
C7_NoCallWithoutRange ==
    [][ /\ ( /\ last'.op \in {"try_acquire_lock", "get_lock_state"}
             /\ last'.scope = "WholeByteRange"
             /\ (~metaReadable \/ fileLen > OFF_T_MAX) )
           => /\ last'.res.kind \in {"MetadataError", "TryFromIntError"}
              /\ last'.calls = << >>
              /\ last'.flock = NoFlock
              /\ locks' = locks
        /\ ( /\ last'.op \in {"try_acquire_lock", "get_lock_state"}
             /\ locks' # locks )
           => last'.flock # NoFlock /\ last'.res = Ok ]_vars

C7_Witness ==
    /\ last.op = "try_acquire_lock" /\ last.scope = "WholeByteRange"
    /\ last.res.kind = "MetadataError"
    /\ last.calls = << >>
    /\ \E d \in Domain \ {last.dom} : HeldAll(d, Bytes, F_RDLCK)

\* C8: the command is decided by the strategy alone and never waits:
\* try_acquire_lock issues F_SETLK (Traditional) or F_OFD_SETLK (OFD),
\* get_lock_state issues F_GETLK or F_OFD_GETLK, and an operation issues at
\* most one syscall.
C8_Commands ==
    /\ last.op = "try_acquire_lock" =>
          /\ Len(last.calls) <= 1
          /\ \A i \in 1..Len(last.calls) :
                last.calls[i] = IF operation = "Traditional" THEN "F_SETLK" ELSE "F_OFD_SETLK"
    /\ last.op = "get_lock_state" =>
          /\ Len(last.calls) <= 1
          /\ \A i \in 1..Len(last.calls) :
                last.calls[i] = IF operation = "Traditional" THEN "F_GETLK" ELSE "F_OFD_GETLK"

C8_Witness ==
    /\ last.op = "try_acquire_lock"
    /\ operation = "OpenFileDescription"
    /\ last.calls = <<"F_OFD_SETLK">>
    /\ last.res = AlreadyLocked

\* C9: within one domain, over the region of the descriptor: a successful
\* try_acquire leaves the domain holding the requested type (Unlocked ->
\* SharedRead, Unlocked -> ExclusiveWrite); re-acquiring the type already
\* held succeeds and changes nothing; the downgrade ExclusiveWrite ->
\* SharedRead succeeds; the upgrade SharedRead -> ExclusiveWrite succeeds
\* when no other domain holds a shared lock on the region and otherwise
\* returns AlreadyLocked and changes nothing; neither operation takes a lock
\* away from any domain, and get_lock_state changes no lock at all.
C9_StateMachine ==
    [][ /\ Did("try_acquire_lock") =>
            LET d == last'.dom
                t == last'.lock_type
                r == KRange(last'.flock)
            IN /\ last'.res = Ok => \A b \in r : locks'[d][b] = Want(t)
               /\ HeldAll(d, r, F_UNLCK) /\ OthersTypes(d, r) = {} => last'.res = Ok
               /\ HeldAll(d, r, Want(t)) => last'.res = Ok /\ locks' = locks
               /\ HeldAll(d, r, F_WRLCK) /\ t = "Read" => last'.res = Ok
               /\ HeldAll(d, r, F_RDLCK) /\ t = "Write" =>
                     IF F_RDLCK \in OthersTypes(d, r)
                     THEN last'.res = AlreadyLocked /\ locks' = locks
                     ELSE last'.res = Ok
               /\ last'.res # Ok => locks' = locks
        /\ last'.op \in {"try_acquire_lock", "get_lock_state"} =>
              \A o \in Domain, b \in Bytes : locks[o][b] # F_UNLCK => locks'[o][b] # F_UNLCK
        /\ last'.op = "get_lock_state" => locks' = locks ]_vars

C9_Witness ==
    /\ Called("try_acquire_lock")
    /\ last.lock_type = "Write" /\ last.res = AlreadyLocked
    /\ HeldAll(last.dom, KRange(last.flock), F_RDLCK)
    /\ F_RDLCK \in OthersTypes(last.dom, KRange(last.flock))

====
